---------------------------- MODULE Spec2Model ----------------------------
(***************************************************************************)
(* 2-hop aggregation benchmark: the three query adapters of queries.py     *)
(* (PostgresQueries, Neo4jQueries, PuppyGraphQueries) over the dataset     *)
(* produced by data_generator.py and loaded by the *_setup.py scripts.     *)
(*                                                                         *)
(* Numbers.  Counts are integers.  Every other numeric column (amounts,    *)
(* sums, averages, risk scores, balances) is an exact rational <<n, d>>    *)
(* in lowest terms with d > 0; NULL / None is the empty tuple <<>>.        *)
(* Binary rounding of float() is outside the model.                        *)
(*                                                                         *)
(* Specifications.                                                         *)
(*   Spec        a generated dataset, then one two_hop_aggregation call    *)
(*   SpecSession one adapter on a fixed dataset: queries, batches, close   *)
(*   SpecFault   the same calls while the backend may fail                 *)
(*   SpecBench   run_full_benchmark of benchmark.py, statement by          *)
(*               statement, with failing backends and unloaded datasets    *)
(*   SpecReport  generate_comparison_report on any three records           *)
(*   SpecPipeline  BenchmarkPipeline.run of run_all.py, step by step       *)
(***************************************************************************)
EXTENDS Integers, Sequences, FiniteSets, TLC

VARIABLES customers, transactions, conn, closeCalls, out,
          faults, loaded, test_customer_ids, pc, trace, frame, benchmark_results,
          runs, report, queries, failedQueries,
          skip_data_generation, skip_setup, step, executed, exit_status,
          data_files

\* the state of the fault-injected calls and of the benchmark harness
benchVars == <<faults, loaded, test_customer_ids, pc, trace, frame,
               benchmark_results, runs, report, queries, failedQueries>>

\* the state of the pipeline of run_all.py
pipeVars == <<skip_data_generation, skip_setup, step, executed, exit_status,
              data_files>>

vars == <<customers, transactions, conn, closeCalls, out, benchVars, pipeVars>>

(***************************************************************************)
(* Bounds                                                                  *)
(***************************************************************************)
MaxTxns == 4

MaxBatch == 2

MaxCloseCalls == 2

MaxElapsed == 1

MaxReportTime == 2

(***************************************************************************)
(* Arithmetic and multiset helpers                                         *)
(***************************************************************************)
RECURSIVE GCD(_, _)
GCD(a, b) == IF b = 0 THEN a ELSE GCD(b, a % b)

Rat(n, d) == LET g == GCD(n, d) IN <<n \div g, d \div g>>

NULL == <<>>

Zero == <<0, 1>>

RECURSIVE SumSet(_, _)
SumSet(S, f) ==
    IF S = {} THEN 0
    ELSE LET x == CHOOSE y \in S : TRUE IN f[x] + SumSet(S \ {x}, f)

EmptyBag == [x \in {} |-> 0]

BagSize(b) == SumSet(DOMAIN b, b)

BagAdd(b, e) ==
    [x \in (DOMAIN b) \cup {e} |->
        IF x \in DOMAIN b THEN b[x] + (IF x = e THEN 1 ELSE 0) ELSE 1]

\* the multiset of g[r] for the rows r of bag b
BagMap(b, g) ==
    [v \in {g[r] : r \in DOMAIN b} |->
        SumSet({r \in DOMAIN b : g[r] = v}, b)]

\* greatest and least of a non-empty set of integers
SetMax(S) == CHOOSE m \in S : \A y \in S : y <= m

SetMin(S) == CHOOSE m \in S : \A y \in S : m <= y

(***************************************************************************)
(* Dataset (data_generator.py, customers.csv / transactions.csv)           *)
(***************************************************************************)
Adapters == {"PostgreSQL", "Neo4j", "PuppyGraph"}

\* the (amount, status) pairs of the generated transactions
TxnKinds == {<<30, "completed">>, <<50, "completed">>,
             <<30, "pending">>, <<50, "failed">>}

\* customers.csv restricted to the columns the queries read
CustomerTable ==
    [c \in {"A", "B", "C"} |->
        CASE c = "A" -> [risk_score |-> 0,   account_balance |-> 0]
          [] c = "B" -> [risk_score |-> 40,  account_balance |-> 1000]
          [] c = "C" -> [risk_score |-> 100, account_balance |-> 5000]]

\* a seed identifier that is not a customer of the dataset
AbsentId == "Z"

\* the identifiers a caller may pass as customer_id
Seeds(custs) == (DOMAIN custs) \cup {AbsentId}

Txn(f, t, a, s) ==
    [from_customer_id |-> f, to_customer_id |-> t, amount |-> a, status |-> s]

FeatureKeys ==
    {"num_unique_2hop_receivers", "num_2hop_transactions",
     "avg_2hop_transaction_amount", "total_2hop_transaction_amount",
     "max_2hop_transaction_amount", "min_2hop_transaction_amount",
     "avg_2hop_receiver_risk_score", "avg_2hop_receiver_balance"}

Features(u, n, avg, total, mx, mn, risk, bal) ==
    [num_unique_2hop_receivers     |-> u,
     num_2hop_transactions         |-> n,
     avg_2hop_transaction_amount   |-> avg,
     total_2hop_transaction_amount |-> total,
     max_2hop_transaction_amount   |-> mx,
     min_2hop_transaction_amount   |-> mn,
     avg_2hop_receiver_risk_score  |-> risk,
     avg_2hop_receiver_balance     |-> bal]

\* the literal all-zero dictionary of queries.py
ZeroFeatures == Features(0, 0, Zero, Zero, Zero, Zero, Zero, Zero)

\* what a call hands back: a value, or an exception
Returned(v) == [raised |-> FALSE, value |-> v]

Raised == [raised |-> TRUE, value |-> EmptyBag]

(***************************************************************************)
(* Python conversions                                                      *)
(***************************************************************************)
\* float(x): TypeError on None
PyFloatRaises(x) == x = NULL

\* x or 0: None and 0 both give 0
PyOrZero(x) == IF x = NULL \/ x = Zero THEN Zero ELSE x

\* dict.get(key, default)
PyGet(rec, key, default) == IF key \in DOMAIN rec THEN rec[key] ELSE default

(***************************************************************************)
(* PostgresQueries.two_hop_aggregation: the SQL text, clause by clause     *)
(***************************************************************************)
\* WHERE t1.from_customer_id = %s AND t1.status = 'completed'
SqlFirstHopWhere_NoStatus(t1, customer_id) ==
    t1.from_customer_id = customer_id

SqlFirstHopWhere(t1, customer_id) ==
    /\ t1.from_customer_id = customer_id
    /\ t1.status = "completed"

\* SELECT DISTINCT: every row once
SqlDistinct_Missing(rows) == rows

SqlDistinct(rows) == [r \in DOMAIN rows |-> 1]

\* WITH first_hop AS (SELECT DISTINCT t1.to_customer_id ...): bag of ids
first_hop(txns, customer_id) ==
    LET sel == [r \in {t1 \in DOMAIN txns : SqlFirstHopWhere(t1, customer_id)}
                  |-> txns[r]]
    IN  SqlDistinct(BagMap(sel, [r \in DOMAIN sel |-> r.to_customer_id]))

\* WHERE t2.status = 'completed'
SqlSecondHopWhere_NoStatus(t2) == TRUE

SqlSecondHopWhere(t2) == t2.status = "completed"

\* second_hop AS (... FROM transactions t2 INNER JOIN first_hop fh
\*                ON t2.from_customer_id = fh.to_customer_id WHERE ...)
\* bag of transaction rows; a row appears once per matching first_hop row
second_hop(txns, fh) ==
    [t2 \in {r \in DOMAIN txns :
                r.from_customer_id \in DOMAIN fh /\ SqlSecondHopWhere(r)}
        |-> txns[t2] * fh[t2.from_customer_id]]

\* FROM second_hop sh LEFT JOIN customers c ON sh.to_customer_id = c.customer_id
\* customer_id is the primary key: at most one match; no match gives NULL c.*
SqlLeftJoinCustomers(sh, custs) ==
    BagMap(sh, [r \in DOMAIN sh |->
        IF r.to_customer_id \in DOMAIN custs
        THEN [to_customer_id |-> r.to_customer_id, amount |-> r.amount,
              matched |-> TRUE,
              risk_score |-> custs[r.to_customer_id].risk_score,
              account_balance |-> custs[r.to_customer_id].account_balance]
        ELSE [to_customer_id |-> r.to_customer_id, amount |-> r.amount,
              matched |-> FALSE, risk_score |-> 0, account_balance |-> 0]])

\* COUNT(DISTINCT sh.to_customer_id)
SqlCountDistinctTo(rows) == Cardinality({r.to_customer_id : r \in DOMAIN rows})

\* COUNT(*)
SqlCountStar(rows) == BagSize(rows)

\* SUM(col) over the non-NULL values of a bag of integers; NULL when none
SqlSum(vals) ==
    IF DOMAIN vals = {} THEN NULL
    ELSE Rat(SumSet(DOMAIN vals, [v \in DOMAIN vals |-> v * vals[v]]), 1)

\* AVG(col)
SqlAvg(vals) ==
    IF DOMAIN vals = {} THEN NULL
    ELSE Rat(SumSet(DOMAIN vals, [v \in DOMAIN vals |-> v * vals[v]]),
             BagSize(vals))

\* MAX(col), MIN(col)
SqlMax(vals) == IF DOMAIN vals = {} THEN NULL ELSE Rat(SetMax(DOMAIN vals), 1)

SqlMin(vals) == IF DOMAIN vals = {} THEN NULL ELSE Rat(SetMin(DOMAIN vals), 1)

\* COALESCE(x, 0)
SqlCoalesce_Swapped(x, d) == d

SqlCoalesce(x, d) == IF x = NULL THEN d ELSE x

\* the bag of values of one column over the rows where it is not NULL
SqlColumn_DistinctReceiver(rows, col) ==
    IF col = "amount" THEN BagMap(rows, [r \in DOMAIN rows |-> r[col]])
    ELSE LET recv == {r.to_customer_id : r \in {q \in DOMAIN rows : q.matched}}
             one  == [c \in recv |-> 1]
         IN  BagMap(one, [c \in DOMAIN one |->
                 (CHOOSE r \in DOMAIN rows : r.to_customer_id = c /\ r.matched)[col]])

SqlColumn(rows, col) ==
    LET nn == [r \in {q \in DOMAIN rows : col = "amount" \/ q.matched}
                 |-> rows[r]]
    IN  BagMap(nn, [r \in DOMAIN nn |-> r[col]])

\* the single row the aggregate SELECT returns (cursor.fetchone())
SqlSelect(rows) ==
    <<SqlCountDistinctTo(rows),
      SqlCountStar(rows),
      SqlCoalesce(SqlAvg(SqlColumn(rows, "amount")), Zero),
      SqlCoalesce(SqlSum(SqlColumn(rows, "amount")), Zero),
      SqlCoalesce(SqlMax(SqlColumn(rows, "amount")), Zero),
      SqlCoalesce(SqlMin(SqlColumn(rows, "amount")), Zero),
      SqlCoalesce(SqlAvg(SqlColumn(rows, "risk_score")), Zero),
      SqlCoalesce(SqlAvg(SqlColumn(rows, "account_balance")), Zero)>>

\* features = {...: result[0], ...: result[1], ...: float(result[2]), ...}
PostgresRowToFeatures_Swapped(result) ==
    IF \E i \in 3..8 : PyFloatRaises(result[i]) THEN Raised
    ELSE Returned(Features(result[2], result[1], result[3], result[4],
                           result[5], result[6], result[7], result[8]))

PostgresRowToFeatures(result) ==
    IF \E i \in 3..8 : PyFloatRaises(result[i]) THEN Raised
    ELSE Returned(Features(result[1], result[2], result[3], result[4],
                           result[5], result[6], result[7], result[8]))

PostgresTwoHop(txns, custs, customer_id) ==
    PostgresRowToFeatures(
        SqlSelect(SqlLeftJoinCustomers(
            second_hop(txns, first_hop(txns, customer_id)), custs)))


(***************************************************************************)
(* Neo4jQueries.two_hop_aggregation: the Cypher text, clause by clause     *)
(* The graph is the one neo4j_setup.py creates: a TRANSFERRED relationship *)
(* per transaction whose two endpoints are Customer nodes.                 *)
(***************************************************************************)
\* MATCH (source:Customer {customer_id: $customer_id})-[t1:TRANSFERRED]->(hop1:Customer)
\* WHERE t1.status = 'completed'          -- one row per matching t1
CypherMatchHop1(txns, custs, customer_id) ==
    LET sel == [r \in {t1 \in DOMAIN txns :
                          /\ t1.from_customer_id = customer_id
                          /\ t1.from_customer_id \in DOMAIN custs
                          /\ t1.to_customer_id \in DOMAIN custs
                          /\ t1.status = "completed"}
                  |-> txns[r]]
    IN  BagMap(sel, [r \in DOMAIN sel |-> r.to_customer_id])

\* WITH DISTINCT hop1
CypherWithDistinct(rows) == [r \in DOMAIN rows |-> 1]

\* MATCH (hop1)-[t2:TRANSFERRED]->(hop2:Customer) WHERE t2.status = 'completed'
\* one row (t2, hop2) per hop1 row and matching relationship
CypherMatchHop2(txns, custs, hop1s) ==
    LET sel == [t2 \in {r \in DOMAIN txns :
                           /\ r.from_customer_id \in DOMAIN hop1s
                           /\ r.to_customer_id \in DOMAIN custs
                           /\ r.status = "completed"}
                  |-> txns[t2] * hop1s[t2.from_customer_id]]
    IN  BagMap(sel, [r \in DOMAIN sel |->
            [hop2 |-> r.to_customer_id, amount |-> r.amount,
             risk_score |-> custs[r.to_customer_id].risk_score,
             account_balance |-> custs[r.to_customer_id].account_balance]])

CypherColumn(rows, col) == BagMap(rows, [r \in DOMAIN rows |-> r[col]])

\* AVG, MAX, MIN give null over no rows; SUM gives 0
CypherAvg(vals) ==
    IF DOMAIN vals = {} THEN NULL
    ELSE Rat(SumSet(DOMAIN vals, [v \in DOMAIN vals |-> v * vals[v]]),
             BagSize(vals))

CypherSum(vals) ==
    Rat(SumSet(DOMAIN vals, [v \in DOMAIN vals |-> v * vals[v]]), 1)

CypherMax(vals) == IF DOMAIN vals = {} THEN NULL ELSE Rat(SetMax(DOMAIN vals), 1)

CypherMin(vals) == IF DOMAIN vals = {} THEN NULL ELSE Rat(SetMin(DOMAIN vals), 1)

\* RETURN <aggregates only>: exactly one record, also over no rows
CypherReturn(rows) ==
    << [num_unique_2hop_receivers     |-> Cardinality({r.hop2 : r \in DOMAIN rows}),
        num_2hop_transactions         |-> BagSize(rows),
        avg_2hop_transaction_amount   |-> CypherAvg(CypherColumn(rows, "amount")),
        total_2hop_transaction_amount |-> CypherSum(CypherColumn(rows, "amount")),
        max_2hop_transaction_amount   |-> CypherMax(CypherColumn(rows, "amount")),
        min_2hop_transaction_amount   |-> CypherMin(CypherColumn(rows, "amount")),
        avg_2hop_receiver_risk_score  |-> CypherAvg(CypherColumn(rows, "risk_score")),
        avg_2hop_receiver_balance     |-> CypherAvg(CypherColumn(rows, "account_balance"))] >>

\* record = result.single(); if record is None: return {zeros};
\* features = {count, count, float(record[...] or 0), ...}
Neo4jRecordToFeatures(records) ==
    IF Len(records) = 0 THEN Returned(ZeroFeatures)
    ELSE LET record == records[1] IN
         Returned(Features(
            record.num_unique_2hop_receivers,
            record.num_2hop_transactions,
            PyOrZero(record.avg_2hop_transaction_amount),
            PyOrZero(record.total_2hop_transaction_amount),
            PyOrZero(record.max_2hop_transaction_amount),
            PyOrZero(record.min_2hop_transaction_amount),
            PyOrZero(record.avg_2hop_receiver_risk_score),
            PyOrZero(record.avg_2hop_receiver_balance)))

Neo4jTwoHop(txns, custs, customer_id) ==
    Neo4jRecordToFeatures(
        CypherReturn(CypherMatchHop2(txns, custs,
            CypherWithDistinct(CypherMatchHop1(txns, custs, customer_id)))))

(***************************************************************************)
(* PuppyGraphQueries.two_hop_aggregation: the Gremlin pipeline, step by    *)
(* step.  Traversers are a bag of vertices.  Vertices are the rows of      *)
(* customers.csv (label Customer), edges the rows of transactions.csv      *)
(* (label TRANSFERRED), as declared by puppygraph_setup.create_schema_config*)
(***************************************************************************)
\* the properties of a Customer vertex: the columns of customers.csv
GremlinVertexProps(custs, v) ==
    [customer_id     |-> v,
     risk_score      |-> custs[v].risk_score,
     account_balance |-> custs[v].account_balance]

\* g.V(): every vertex once
GremlinV(custs) == [v \in DOMAIN custs |-> 1]

\* has(key, value): keeps the traversers whose element has that property value
GremlinHas(travs, custs, key, value) ==
    [v \in {w \in DOMAIN travs :
               /\ key \in DOMAIN GremlinVertexProps(custs, w)
               /\ GremlinVertexProps(custs, w)[key] = value}
        |-> travs[v]]

\* out('TRANSFERRED'): from each vertex to the head vertex of each outgoing edge
GremlinOut(travs, txns, custs) ==
    LET edges == {e \in DOMAIN txns : /\ e.from_customer_id \in DOMAIN travs
                                      /\ e.to_customer_id \in DOMAIN custs}
    IN  [w \in {e.to_customer_id : e \in edges} |->
            SumSet({e \in edges : e.to_customer_id = w},
                   [e \in edges |-> travs[e.from_customer_id] * txns[e]])]

\* dedup()
GremlinDedup(travs) == [v \in DOMAIN travs |-> 1]

\* values(key): the property values of the traversers that have the property
GremlinValues(travs, custs, key) ==
    LET have == [v \in {w \in DOMAIN travs :
                           key \in DOMAIN GremlinVertexProps(custs, w)}
                   |-> travs[v]]
    IN  BagMap(have, [v \in DOMAIN have |-> GremlinVertexProps(custs, v)[key]])

\* mean(), sum(), max(), min(): no result over no values (NULL here)
GremlinMean(vals) ==
    IF DOMAIN vals = {} THEN NULL
    ELSE Rat(SumSet(DOMAIN vals, [v \in DOMAIN vals |-> v * vals[v]]),
             BagSize(vals))

GremlinSum(vals) ==
    IF DOMAIN vals = {} THEN NULL
    ELSE Rat(SumSet(DOMAIN vals, [v \in DOMAIN vals |-> v * vals[v]]), 1)

GremlinMax(vals) == IF DOMAIN vals = {} THEN NULL ELSE Rat(SetMax(DOMAIN vals), 1)

GremlinMin(vals) == IF DOMAIN vals = {} THEN NULL ELSE Rat(SetMin(DOMAIN vals), 1)

\* the vertices folded by .fold()
GremlinTraversal(txns, custs, customer_id) ==
    LET s0 == GremlinHas(GremlinV(custs), custs, "customer_id", customer_id)
        s1 == GremlinOut(s0, txns, custs)
        s2 == GremlinHas(s1, custs, "status", "completed")
        s3 == GremlinDedup(s2)
        s4 == GremlinOut(s3, txns, custs)
    IN  GremlinHas(s4, custs, "status", "completed")

GremlinCountKeys == {"num_unique_2hop_receivers", "num_2hop_transactions"}

GremlinKeys == GremlinCountKeys \cup
    {"avg_amount", "total_amount", "max_amount", "min_amount",
     "avg_risk_score", "avg_balance"}

\* what a by() traversal without a result does to project() depends on the
\* engine: the key maps to null, the key is left out, or the query fails
GremlinByModes == {"null", "omit", "error"}

\* the value of each by(__.unfold()...) over the folded list
GremlinBy(folded, custs) ==
    [k \in GremlinKeys |->
        CASE k = "num_unique_2hop_receivers" -> Cardinality(DOMAIN GremlinDedup(folded))
          [] k = "num_2hop_transactions" -> BagSize(folded)
          [] k = "avg_amount"     -> GremlinMean(GremlinValues(folded, custs, "amount"))
          [] k = "total_amount"   -> GremlinSum(GremlinValues(folded, custs, "amount"))
          [] k = "max_amount"     -> GremlinMax(GremlinValues(folded, custs, "amount"))
          [] k = "min_amount"     -> GremlinMin(GremlinValues(folded, custs, "amount"))
          [] k = "avg_risk_score" -> GremlinMean(GremlinValues(folded, custs, "risk_score"))
          [] k = "avg_balance"    -> GremlinMean(GremlinValues(folded, custs, "account_balance"))]

GremlinUnproductive(by) ==
    {k \in GremlinKeys \ GremlinCountKeys : by[k] = NULL}

\* record.get(key, 0), float(record.get(key, 0) or 0)
PuppyGraphRecordToFeatures(record) ==
    Returned(Features(
        PyGet(record, "num_unique_2hop_receivers", 0),
        PyGet(record, "num_2hop_transactions", 0),
        PyOrZero(PyGet(record, "avg_amount", Zero)),
        PyOrZero(PyGet(record, "total_amount", Zero)),
        PyOrZero(PyGet(record, "max_amount", Zero)),
        PyOrZero(PyGet(record, "min_amount", Zero)),
        PyOrZero(PyGet(record, "avg_risk_score", Zero)),
        PyOrZero(PyGet(record, "avg_balance", Zero))))

\* try: result = client.submit(...); ... except Exception: return {zeros}
PuppyGraphTwoHop(txns, custs, customer_id, mode) ==
    LET by == GremlinBy(GremlinTraversal(txns, custs, customer_id), custs)
        bad == GremlinUnproductive(by)
    IN  IF mode = "error" /\ bad # {}
        THEN Returned(ZeroFeatures)
        ELSE PuppyGraphRecordToFeatures(
                [k \in (IF mode = "omit" THEN GremlinKeys \ bad ELSE GremlinKeys)
                    |-> by[k]])


(***************************************************************************)
(* batch_two_hop_aggregation (the same loop in the three classes)          *)
(***************************************************************************)
\* features['customer_id'] = customer_id
WithCustomerId(features, customer_id) ==
    [k \in (DOMAIN features) \cup {"customer_id"} |->
        IF k = "customer_id" THEN customer_id ELSE features[k]]

\* results = []; for customer_id in customer_ids: features = two_hop(...);
\* features['customer_id'] = customer_id; results.append(features)
\* calls[i] is what the i-th two_hop_aggregation call hands back
RECURSIVE BatchLoop_Prepend(_, _, _)
BatchLoop_Prepend(calls, customer_ids, results) ==
    IF customer_ids = <<>> THEN Returned(results)
    ELSE IF Head(calls).raised THEN Raised
    ELSE BatchLoop_Prepend(Tail(calls), Tail(customer_ids),
            <<WithCustomerId(Head(calls).value, Head(customer_ids))>> \o results)

RECURSIVE BatchLoop(_, _, _)
BatchLoop(calls, customer_ids, results) ==
    IF customer_ids = <<>> THEN Returned(results)
    ELSE IF Head(calls).raised THEN Raised
    ELSE BatchLoop(Tail(calls), Tail(customer_ids),
            Append(results, WithCustomerId(Head(calls).value, Head(customer_ids))))

\* the backend queries the loop issues, in order: every two_hop_aggregation
\* call sends one query (cursor.execute, session.run, client.submit) for its
\* customer_id; a call that raises ends the loop
RECURSIVE BatchQueries_Cached(_, _, _)
BatchQueries_Cached(calls, customer_ids, issued) ==
    IF customer_ids = <<>> THEN issued
    ELSE IF \E i \in 1..Len(issued) : issued[i] = Head(customer_ids)
         THEN BatchQueries_Cached(Tail(calls), Tail(customer_ids), issued)
    ELSE IF Head(calls).raised THEN Append(issued, Head(customer_ids))
    ELSE BatchQueries_Cached(Tail(calls), Tail(customer_ids),
                             Append(issued, Head(customer_ids)))

RECURSIVE BatchQueries(_, _, _)
BatchQueries(calls, customer_ids, issued) ==
    IF customer_ids = <<>> THEN issued
    ELSE IF Head(calls).raised THEN Append(issued, Head(customer_ids))
    ELSE BatchQueries(Tail(calls), Tail(customer_ids),
                      Append(issued, Head(customer_ids)))

\* the id lists a caller may pass
IdLists(custs) == UNION {[1..n -> Seeds(custs)] : n \in 0..MaxBatch}

(***************************************************************************)
(* State                                                                   *)
(*   customers, transactions : the dataset held by every backend          *)
(*   conn[a]       : state of the connection / driver / client of a       *)
(*                   ("none" while the adapter is not constructed)        *)
(*   closeCalls[a] : calls made to the underlying close() of a            *)
(*   out           : the last adapter call and what it handed back        *)
(***************************************************************************)
NoOutput == [op |-> "none", adapter |-> "", arg |-> "", raised |-> FALSE,
             value |-> EmptyBag]

Output(op, a, arg, r) ==
    [op |-> op, adapter |-> a, arg |-> arg, raised |-> r.raised, value |-> r.value]

\* no record yet (postgres_results, neo4j_results, puppygraph_results unset)
NoRecord == [database |-> ""]

\* no report yet
NoReport == [generated |-> FALSE]

\* no benchmark_* call is in progress: no local variable is bound
NoFrame == [backend |-> ""]

\* benchmark.py is not running: every backend holds the dataset, no call
\* was made under an injected fault
HarnessIdle ==
    /\ faults = <<>>
    /\ queries = <<>>
    /\ failedQueries = [a \in Adapters |-> 0]
    /\ loaded = Adapters
    /\ test_customer_ids = <<>>
    /\ pc = "idle"
    /\ trace = <<>>
    /\ frame = NoFrame
    /\ benchmark_results = [a \in Adapters |-> NoRecord]
    /\ runs = <<>>
    /\ report = NoReport

\* run_all.py is not running: the data files exist, no step was executed
PipelineIdle ==
    /\ skip_data_generation = FALSE
    /\ skip_setup = FALSE
    /\ step = 0
    /\ executed = <<>>
    /\ exit_status = <<>>
    /\ data_files = TRUE

\* the adapters of set S are constructed (__init__ opens the connection)
Constructed(S) ==
    /\ conn = [a \in Adapters |-> IF a \in S THEN "open" ELSE "none"]
    /\ closeCalls = [a \in Adapters |-> 0]
    /\ out = NoOutput
    /\ HarnessIdle
    /\ PipelineIdle

Init == /\ customers = CustomerTable
        /\ transactions = EmptyBag
        /\ Constructed(Adapters)

\* one generated transaction (generate_transactions), loaded into every backend
AddTransaction(f, t, a, s) ==
    /\ out = NoOutput
    /\ BagSize(transactions) < MaxTxns
    /\ f # t
    /\ transactions' = BagAdd(transactions, Txn(f, t, a, s))
    /\ UNCHANGED <<customers, conn, closeCalls, out, benchVars, pipeVars>>

PostgresQueries_two_hop_aggregation(customer_id) ==
    /\ conn["PostgreSQL"] = "open"
    /\ out' = Output("two_hop", "PostgreSQL", customer_id,
                     PostgresTwoHop(transactions, customers, customer_id))
    /\ UNCHANGED <<customers, transactions, conn, closeCalls, benchVars, pipeVars>>

Neo4jQueries_two_hop_aggregation(customer_id) ==
    /\ conn["Neo4j"] = "open"
    /\ out' = Output("two_hop", "Neo4j", customer_id,
                     Neo4jTwoHop(transactions, customers, customer_id))
    /\ UNCHANGED <<customers, transactions, conn, closeCalls, benchVars, pipeVars>>

PuppyGraphQueries_two_hop_aggregation(customer_id, mode) ==
    /\ conn["PuppyGraph"] = "open"
    /\ out' = Output("two_hop", "PuppyGraph", customer_id,
                     PuppyGraphTwoHop(transactions, customers, customer_id, mode))
    /\ UNCHANGED <<customers, transactions, conn, closeCalls, benchVars, pipeVars>>

PostgresQueries_batch_two_hop_aggregation(customer_ids) ==
    /\ conn["PostgreSQL"] = "open"
    /\ out' = Output("batch", "PostgreSQL", customer_ids,
            BatchLoop([i \in 1..Len(customer_ids) |->
                          PostgresTwoHop(transactions, customers, customer_ids[i])],
                      customer_ids, <<>>))
    /\ UNCHANGED <<customers, transactions, conn, closeCalls, benchVars, pipeVars>>

Neo4jQueries_batch_two_hop_aggregation(customer_ids) ==
    /\ conn["Neo4j"] = "open"
    /\ out' = Output("batch", "Neo4j", customer_ids,
            BatchLoop([i \in 1..Len(customer_ids) |->
                          Neo4jTwoHop(transactions, customers, customer_ids[i])],
                      customer_ids, <<>>))
    /\ UNCHANGED <<customers, transactions, conn, closeCalls, benchVars, pipeVars>>

PuppyGraphQueries_batch_two_hop_aggregation(customer_ids, mode) ==
    /\ conn["PuppyGraph"] = "open"
    /\ out' = Output("batch", "PuppyGraph", customer_ids,
            BatchLoop([i \in 1..Len(customer_ids) |->
                          PuppyGraphTwoHop(transactions, customers,
                                           customer_ids[i], mode)],
                      customer_ids, <<>>))
    /\ UNCHANGED <<customers, transactions, conn, closeCalls, benchVars, pipeVars>>

\* if self.conn: self.conn.close()  (likewise self.driver, self.client)
\* the attribute is assigned once in __init__ and never cleared, so the
\* test is true on every call and the underlying close() is called each time
close(a) ==
    /\ conn[a] # "none"
    /\ closeCalls[a] < MaxCloseCalls
    /\ conn' = [conn EXCEPT ![a] = "closed"]
    /\ closeCalls' = [closeCalls EXCEPT ![a] = @ + 1]
    /\ out' = Output("close", a, "", Returned(EmptyBag))
    /\ UNCHANGED <<customers, transactions, benchVars, pipeVars>>

TwoHopStep ==
    \/ \E id \in Seeds(customers) : PostgresQueries_two_hop_aggregation(id)
    \/ \E id \in Seeds(customers) : Neo4jQueries_two_hop_aggregation(id)
    \/ \E id \in Seeds(customers), m \in GremlinByModes :
          PuppyGraphQueries_two_hop_aggregation(id, m)

\* the dataset is loaded first; then one adapter call is made on it
Next ==
    \/ \E f, t \in DOMAIN customers, k \in TxnKinds :
          AddTransaction(f, t, k[1], k[2])
    \/ (out = NoOutput /\ TwoHopStep)

Spec == Init /\ [][Next]_vars

(***************************************************************************)
(* A session of one adapter on a fixed dataset: single queries, batches    *)
(* and close(), as a benchmark_* function of benchmark.py uses an adapter  *)
(***************************************************************************)
ScenarioCustomers ==
    [c \in {"A", "B", "C", "D"} |->
        CASE c = "A" -> [risk_score |-> 10, account_balance |-> 1000]
          [] c = "B" -> [risk_score |-> 20, account_balance |-> 2000]
          [] c = "C" -> [risk_score |-> 60, account_balance |-> 3000]
          [] c = "D" -> [risk_score |-> 0,  account_balance |-> 0]]

\* A->B (100), B->C (50), B->D (30), all completed
ScenarioTransactions ==
    BagAdd(BagAdd(BagAdd(EmptyBag,
        Txn("A", "B", 100, "completed")),
        Txn("B", "C", 50, "completed")),
        Txn("B", "D", 30, "completed"))

\* the same with a second A->B transfer, a pending B->A and a chain C->D->A
BusyTransactions ==
    BagAdd(BagAdd(BagAdd(BagAdd(ScenarioTransactions,
        Txn("A", "B", 100, "completed")),
        Txn("B", "A", 70, "pending")),
        Txn("C", "D", 20, "completed")),
        Txn("D", "A", 20, "completed"))

InitSession ==
    /\ customers = ScenarioCustomers
    /\ transactions \in {ScenarioTransactions, BusyTransactions}
    /\ \E a \in Adapters : Constructed({a})

BatchStep ==
    \/ \E ids \in IdLists(customers) : PostgresQueries_batch_two_hop_aggregation(ids)
    \/ \E ids \in IdLists(customers) : Neo4jQueries_batch_two_hop_aggregation(ids)
    \/ \E ids \in IdLists(customers), m \in GremlinByModes :
          PuppyGraphQueries_batch_two_hop_aggregation(ids, m)

NextSession ==
    \/ TwoHopStep
    \/ BatchStep
    \/ \E a \in Adapters : close(a)

SpecSession == InitSession /\ [][NextSession]_vars

(***************************************************************************)
(* The adapters when the backend call fails.  queries holds the customer   *)
(* ids of the backend queries the last call sent, in order, and faults     *)
(* tells which of them failed.  fault is TRUE when the call                *)
(* to the backend (cursor.execute, session.run, client.submit) raises a    *)
(* backend error: timeout, missing dataset, protocol error.                *)
(***************************************************************************)
\* cursor.execute(query, (customer_id,)): no try around it
PostgresCall_Swallow(txns, custs, customer_id, fault) ==
    IF fault THEN Returned(ZeroFeatures)
    ELSE PostgresTwoHop(txns, custs, customer_id)

PostgresCall(txns, custs, customer_id, fault) ==
    IF fault THEN Raised ELSE PostgresTwoHop(txns, custs, customer_id)

\* result = session.run(query, customer_id=customer_id): no try around it
\* (the with block closes the session and lets the exception through)
Neo4jCall(txns, custs, customer_id, fault) ==
    IF fault THEN Raised ELSE Neo4jTwoHop(txns, custs, customer_id)

\* try: result = self.client.submit(...).all().result(timeout=30) ...
\* except Exception as e: print(...); return {zeros}
PuppyGraphCall(txns, custs, customer_id, mode, fault) ==
    IF fault THEN Returned(ZeroFeatures)
    ELSE PuppyGraphTwoHop(txns, custs, customer_id, mode)

\* two_hop_aggregation of adapter a
AdapterCall(a, txns, custs, customer_id, mode, fault) ==
    CASE a = "PostgreSQL" -> PostgresCall(txns, custs, customer_id, fault)
      [] a = "Neo4j"      -> Neo4jCall(txns, custs, customer_id, fault)
      [] a = "PuppyGraph" -> PuppyGraphCall(txns, custs, customer_id, mode, fault)

\* batch_two_hop_aggregation of adapter a; fs[i] is the fault of the i-th query
AdapterBatch(a, txns, custs, customer_ids, mode, fs) ==
    BatchLoop([i \in 1..Len(customer_ids) |->
                  AdapterCall(a, txns, custs, customer_ids[i], mode, fs[i])],
              customer_ids, <<>>)

\* one two_hop_aggregation call during which the backend may fail
two_hop_aggregation(a, customer_id, mode, fault) ==
    /\ conn[a] = "open"
    /\ out' = Output("two_hop", a, customer_id,
                     AdapterCall(a, transactions, customers, customer_id,
                                 mode, fault))
    /\ faults' = <<fault>>
    /\ queries' = <<customer_id>>
    /\ UNCHANGED <<customers, transactions, conn, closeCalls, loaded,
                   test_customer_ids, pc, trace, frame, benchmark_results,
                   runs, report, failedQueries, pipeVars>>

\* one batch_two_hop_aggregation call; each of its queries may fail
batch_two_hop_aggregation(a, customer_ids, mode, fs) ==
    /\ conn[a] = "open"
    /\ out' = Output("batch", a, customer_ids,
                     AdapterBatch(a, transactions, customers, customer_ids,
                                  mode, fs))
    /\ faults' = fs
    /\ queries' = BatchQueries([i \in 1..Len(customer_ids) |->
                                  AdapterCall(a, transactions, customers,
                                              customer_ids[i], mode, fs[i])],
                              customer_ids, <<>>)
    /\ UNCHANGED <<customers, transactions, conn, closeCalls, loaded,
                   test_customer_ids, pc, trace, frame, benchmark_results,
                   runs, report, failedQueries, pipeVars>>

\* single queries, then one batch, as benchmark_* calls them (benchmark.py
\* 61-76): the batch is the last query call made on an adapter
NextFault ==
    \/ \E a \in Adapters, id \in Seeds(customers), m \in GremlinByModes,
          f \in BOOLEAN : out.op # "batch" /\ two_hop_aggregation(a, id, m, f)
    \/ \E a \in Adapters, ids \in IdLists(customers), m \in GremlinByModes :
          \E fs \in [1..Len(ids) -> BOOLEAN] :
             out.op # "batch" /\ batch_two_hop_aggregation(a, ids, m, fs)

SpecFault == InitSession /\ [][NextFault]_vars

(***************************************************************************)
(* benchmark.py: the records benchmark_postgres, benchmark_neo4j and       *)
(* benchmark_puppygraph return.  A duration is a difference of two         *)
(* time.time() readings, counted in clock ticks; a timing None is NULL.    *)
(***************************************************************************)
Durations == 0..MaxElapsed

\* the texts str(e) and the literal of line 208 can take, by origin
ErrorKinds == {"connect", "index", "query", "division", "close", "schema"}

\* benchmark_results = {'database': ..., 'single_query_time': ..., ...}
SuccessRecord_BatchAsSingle(database, customer_ids, single_query_time, batch_time, result, results) ==
    [database           |-> database,
     single_query_time  |-> Rat(batch_time, 1),
     batch_total_time   |-> Rat(batch_time, 1),
     batch_size         |-> Len(customer_ids),
     avg_query_time     |-> Rat(batch_time, Len(customer_ids)),
     queries_per_second |-> Rat(Len(customer_ids), batch_time),
     sample_result      |-> result,
     all_results        |-> results]

SuccessRecord_AvgUndivided(database, customer_ids, single_query_time, batch_time, result, results) ==
    [database           |-> database,
     single_query_time  |-> Rat(single_query_time, 1),
     batch_total_time   |-> Rat(batch_time, 1),
     batch_size         |-> Len(customer_ids),
     avg_query_time     |-> Rat(batch_time, 1),
     queries_per_second |-> Rat(Len(customer_ids), batch_time),
     sample_result      |-> result,
     all_results        |-> results]

SuccessRecord(database, customer_ids, single_query_time, batch_time, result, results) ==
    [database           |-> database,
     single_query_time  |-> Rat(single_query_time, 1),
     batch_total_time   |-> Rat(batch_time, 1),
     batch_size         |-> Len(customer_ids),
     avg_query_time     |-> Rat(batch_time, Len(customer_ids)),
     queries_per_second |-> Rat(Len(customer_ids), batch_time),
     sample_result      |-> result,
     all_results        |-> results]

\* return {'database': ..., 'error': ..., 'single_query_time': None, ...}
FailureMarker_NoError(database, customer_ids, error) ==
    [database           |-> database,
     single_query_time  |-> NULL,
     batch_total_time   |-> NULL,
     batch_size         |-> Len(customer_ids),
     avg_query_time     |-> NULL,
     queries_per_second |-> NULL]

FailureMarker(database, customer_ids, error) ==
    [database           |-> database,
     error              |-> error,
     single_query_time  |-> NULL,
     batch_total_time   |-> NULL,
     batch_size         |-> Len(customer_ids),
     avg_query_time     |-> NULL,
     queries_per_second |-> NULL]

\* 'error' in result / 'error' not in result
HasError(rec) == "error" \in DOMAIN rec

\* results = batch_two_hop_aggregation(customer_ids) ... return: what the
\* function returns once the batch has handed back `batch` after batch_time
\* ticks and close() has returned: the except clause takes an exception of
\* the batch and the ZeroDivisionError of len(customer_ids) / batch_time
RecordAfterBatch_NoDivisionError(database, customer_ids, single_query_time, batch_time, result, batch) ==
    IF batch.raised THEN FailureMarker(database, customer_ids, "query")
    ELSE SuccessRecord(database, customer_ids, single_query_time, batch_time,
                       result, batch.value)

RecordAfterBatch(database, customer_ids, single_query_time, batch_time, result, batch) ==
    IF batch.raised THEN FailureMarker(database, customer_ids, "query")
    ELSE IF batch_time = 0
         THEN FailureMarker(database, customer_ids, "division")
    ELSE SuccessRecord(database, customer_ids, single_query_time, batch_time,
                       result, batch.value)


(***************************************************************************)
(* Properties                                                              *)
(***************************************************************************)
\* what two_hop_aggregation of adapter a can hand back on a dataset
TwoHopOutcomes(a, txns, custs, customer_id) ==
    CASE a = "PostgreSQL" -> {PostgresTwoHop(txns, custs, customer_id)}
      [] a = "Neo4j"      -> {Neo4jTwoHop(txns, custs, customer_id)}
      [] a = "PuppyGraph" -> {PuppyGraphTwoHop(txns, custs, customer_id, m) :
                                 m \in GremlinByModes}

IsTwoHop == out.op = "two_hop"

IsCompleted(r) == r.status = "completed"

\* the entities the seed reaches by one completed relation
Frontier(txns, id) ==
    {r.to_customer_id : r \in {q \in DOMAIN txns :
                                  q.from_customer_id = id /\ IsCompleted(q)}}

\* the completed relations that leave the frontier, each once
TwoHopRelations(txns, id) ==
    [r \in {q \in DOMAIN txns :
               q.from_customer_id \in Frontier(txns, id) /\ IsCompleted(q)}
        |-> txns[r]]

Receivers(txns, id) == {r.to_customer_id : r \in DOMAIN TwoHopRelations(txns, id)}

AmountFields ==
    {"avg_2hop_transaction_amount", "total_2hop_transaction_amount",
     "max_2hop_transaction_amount", "min_2hop_transaction_amount"}

ReceiverFields == {"avg_2hop_receiver_risk_score", "avg_2hop_receiver_balance"}

CountFields == {"num_unique_2hop_receivers", "num_2hop_transactions"}

\* C1: on every dataset and for every seed, the three adapters return the
\* same two counts and the same avg / total / max / min amounts.
C1_AdaptersAgree ==
    IsTwoHop =>
        /\ ~out.raised
        /\ \A a \in Adapters :
             \A r \in TwoHopOutcomes(a, transactions, customers, out.arg) :
                /\ ~r.raised
                /\ \A k \in CountFields \cup AmountFields : r.value[k] = out.value[k]

\* C2: on the dataset A->B (100), B->C (50), B->D (30), every adapter returns
\* for seed A: 2 unique receivers, 2 transactions, total 80, max 50, min 30,
\* average 40.
C2_ScenarioResult ==
    (IsTwoHop /\ transactions = ScenarioTransactions /\ out.arg = "A") =>
        /\ ~out.raised
        /\ out.value.num_unique_2hop_receivers = 2
        /\ out.value.num_2hop_transactions = 2
        /\ out.value.total_2hop_transaction_amount = <<80, 1>>
        /\ out.value.max_2hop_transaction_amount = <<50, 1>>
        /\ out.value.min_2hop_transaction_amount = <<30, 1>>
        /\ out.value.avg_2hop_transaction_amount = <<40, 1>>

NoCompletedOutgoing(txns, id) ==
    \A r \in DOMAIN txns : r.from_customer_id = id => ~IsCompleted(r)

\* C3: for a seed without a completed outgoing relation (only pending or
\* failed ones, none at all, or a seed that is no customer) every adapter
\* returns the all-zero feature vector and does not raise.
C3_ZeroDegree ==
    (IsTwoHop /\ NoCompletedOutgoing(transactions, out.arg)) =>
        (~out.raised /\ out.value = ZeroFeatures)

\* a seed whose only outgoing relations are pending or failed and lead to an
\* entity that has completed outgoing relations, queried on PostgreSQL
C3_Witness ==
    /\ IsTwoHop /\ out.adapter = "PostgreSQL"
    /\ NoCompletedOutgoing(transactions, out.arg)
    /\ \E r, q \in DOMAIN transactions :
          /\ r.from_customer_id = out.arg
          /\ q.from_customer_id = r.to_customer_id /\ IsCompleted(q)
    /\ ~out.raised /\ out.value = ZeroFeatures

CompletedOnly(txns) == [r \in {q \in DOMAIN txns : IsCompleted(q)} |-> txns[r]]

\* C4: relations that are not completed contribute to no field, at the first
\* hop or at the second: the result is the one obtained on the dataset from
\* which every pending and failed relation is removed.
C4_OnlyCompletedCount ==
    IsTwoHop =>
        \E r \in TwoHopOutcomes(out.adapter, CompletedOnly(transactions),
                                customers, out.arg) :
            r.raised = out.raised /\ r.value = out.value

\* a non-zero result on a dataset with a non-completed relation leaving the
\* seed and a non-completed relation leaving a frontier entity
C4_Witness ==
    /\ IsTwoHop /\ ~out.raised
    /\ out.value.num_2hop_transactions > 0
    /\ \E r, q \in DOMAIN transactions :
          /\ r.from_customer_id = out.arg /\ ~IsCompleted(r)
          /\ q.from_customer_id \in Frontier(transactions, out.arg)
          /\ ~IsCompleted(q)

\* the dataset in which the seed keeps exactly one completed relation to each
\* entity it has completed relations to
CollapseFirstHop(txns, id) ==
    LET first(r) == r.from_customer_id = id /\ IsCompleted(r)
        keep(b)  == CHOOSE r \in DOMAIN txns : first(r) /\ r.to_customer_id = b
    IN  [r \in {q \in DOMAIN txns : first(q) => q = keep(q.to_customer_id)}
            |-> IF first(r) THEN 1 ELSE txns[r]]

\* C5: several completed relations from the seed to the same intermediate
\* entity do not multiply that entity's outgoing relations: the transaction
\* count and the total amount are those of the dataset with one such relation.
C5_FrontierDeduplicated ==
    IsTwoHop =>
        \E r \in TwoHopOutcomes(out.adapter,
                                CollapseFirstHop(transactions, out.arg),
                                customers, out.arg) :
            /\ r.raised = out.raised
            /\ r.value.num_2hop_transactions = out.value.num_2hop_transactions
            /\ r.value.total_2hop_transaction_amount
                  = out.value.total_2hop_transaction_amount

\* the seed has two or more completed relations to an entity that has
\* completed outgoing relations, queried on PostgreSQL
C5_Witness ==
    /\ IsTwoHop /\ out.adapter = "PostgreSQL" /\ ~out.raised
    /\ CollapseFirstHop(transactions, out.arg) # transactions
    /\ out.value.num_2hop_transactions > 0

AllAggregatesZero(v) == \A k \in AmountFields \cup ReceiverFields : v[k] = Zero

\* C6: in every returned feature vector, the transaction count is 0 iff the
\* unique-receiver count is 0 iff the six amount / risk / balance aggregates
\* are all 0.
C6_ZeroTogether ==
    (IsTwoHop /\ ~out.raised) =>
        /\ (out.value.num_2hop_transactions = 0)
              <=> (out.value.num_unique_2hop_receivers = 0)
        /\ (out.value.num_unique_2hop_receivers = 0)
              <=> AllAggregatesZero(out.value)

\* transactions were found whose receivers all have risk score 0 and balance 0
C6_Witness ==
    /\ IsTwoHop /\ ~out.raised /\ out.adapter # "PuppyGraph"
    /\ out.value.num_2hop_transactions > 0
    /\ out.value.avg_2hop_receiver_risk_score = Zero
    /\ out.value.avg_2hop_receiver_balance = Zero

\* C7: in every returned feature vector the unique-receiver count is at most
\* the transaction count.
C7_UniqueAtMostCount ==
    (IsTwoHop /\ ~out.raised) =>
        out.value.num_unique_2hop_receivers <= out.value.num_2hop_transactions

\* a receiver reached by more than one relation: the counts differ
C7_Witness ==
    /\ IsTwoHop /\ ~out.raised
    /\ 0 < out.value.num_unique_2hop_receivers
    /\ out.value.num_unique_2hop_receivers < out.value.num_2hop_transactions

\* mean of a customer column over a set of customers, each once
MeanOverDistinct(custs, S, col) ==
    IF S = {} THEN Zero
    ELSE Rat(SumSet(S, [c \in S |-> custs[c][col]]), Cardinality(S))

\* mean of a customer column over the receivers of a bag of relations, one
\* term per relation
MeanOverRelations(custs, rels, col) ==
    IF DOMAIN rels = {} THEN Zero
    ELSE Rat(SumSet(DOMAIN rels,
                    [r \in DOMAIN rels |-> rels[r] * custs[r.to_customer_id][col]]),
             BagSize(rels))

\* C8 as stated: the two receiver averages are taken over the distinct 2-hop
\* receivers, each contributing once.  Stated for the adapters whose query
\* reaches the receivers (PostgreSQL, Neo4j).
C8_DistinctReceiverAverage ==
    (IsTwoHop /\ ~out.raised /\ out.adapter # "PuppyGraph") =>
        /\ out.value.avg_2hop_receiver_risk_score
              = MeanOverDistinct(customers, Receivers(transactions, out.arg),
                                 "risk_score")
        /\ out.value.avg_2hop_receiver_balance
              = MeanOverDistinct(customers, Receivers(transactions, out.arg),
                                 "account_balance")

\* C8 amended: PostgresQueries and Neo4jQueries average risk_score and
\* account_balance over the completed 2-hop relations, so a receiver reached
\* by k relations contributes k times; PuppyGraphQueries returns 0 for both.
C8_PerRelationAverage ==
    (IsTwoHop /\ ~out.raised) =>
        IF out.adapter = "PuppyGraph"
        THEN /\ out.value.avg_2hop_receiver_risk_score = Zero
             /\ out.value.avg_2hop_receiver_balance = Zero
        ELSE /\ out.value.avg_2hop_receiver_risk_score
                  = MeanOverRelations(customers,
                        TwoHopRelations(transactions, out.arg), "risk_score")
             /\ out.value.avg_2hop_receiver_balance
                  = MeanOverRelations(customers,
                        TwoHopRelations(transactions, out.arg), "account_balance")

\* receivers reached by different numbers of relations: the per-relation
\* average differs from the average over the distinct receivers
C8_Witness ==
    /\ IsTwoHop /\ ~out.raised /\ out.adapter = "PostgreSQL"
    /\ Cardinality(Receivers(transactions, out.arg)) > 1
    /\ out.value.avg_2hop_receiver_risk_score
          # MeanOverDistinct(customers, Receivers(transactions, out.arg),
                             "risk_score")

IsBatch == out.op = "batch"

\* C9 as stated: the batch returns a list as long as the id list whose i-th
\* element equals the result of the standalone call on the i-th id.
C9_BatchEqualsStandalone ==
    IsBatch =>
        /\ ~out.raised
        /\ Len(out.value) = Len(out.arg)
        /\ \A i \in 1..Len(out.arg) :
              \E r \in TwoHopOutcomes(out.adapter, transactions, customers,
                                      out.arg[i]) :
                 ~r.raised /\ out.value[i] = r.value

\* C9 amended: the i-th element of the batch result is the standalone result
\* for the i-th id with one more entry, customer_id, holding that id.
C9_BatchIsStandalonePlusId ==
    IsBatch =>
        /\ ~out.raised
        /\ Len(out.value) = Len(out.arg)
        /\ \A i \in 1..Len(out.arg) :
              \E r \in TwoHopOutcomes(out.adapter, transactions, customers,
                                      out.arg[i]) :
                 /\ ~r.raised
                 /\ DOMAIN out.value[i] = FeatureKeys \cup {"customer_id"}
                 /\ out.value[i].customer_id = out.arg[i]
                 /\ \A k \in FeatureKeys : out.value[i][k] = r.value[k]

\* a batch over two different ids whose results differ
C9_Witness ==
    /\ IsBatch /\ ~out.raised /\ Len(out.arg) = 2
    /\ out.arg[1] # out.arg[2]
    /\ out.value[1].num_2hop_transactions # out.value[2].num_2hop_transactions

\* C10: after the first close() of an adapter, later close() calls perform
\* no further operation on its connection / driver / client.
C10_CloseOnce == \A a \in Adapters : closeCalls[a] <= 1

(***************************************************************************)
(* benchmark.py: run_full_benchmark, step by step                          *)
(*   loaded            : the backends whose dataset view holds the data    *)
(*   test_customer_ids : customer_ids of run_full_benchmark                *)
(*   pc                : the statement the harness is at                   *)
(*   runs              : the benchmark_* functions entered so far          *)
(*   frame             : the local variables of the running benchmark_*    *)
(*   trace             : the adapter operations of that call, in order     *)
(*   benchmark_results : postgres_results, neo4j_results,                  *)
(*                       puppygraph_results                                *)
(*   report            : what generate_comparison_report produced, the     *)
(*                       files of save_results and the chart included      *)
(*   failedQueries     : per backend, the backend queries of its           *)
(*                       benchmark_* call that failed                      *)
(***************************************************************************)
\* benchmark_postgres, benchmark_neo4j, benchmark_puppygraph, as called
BackendOrder == <<"PostgreSQL", "Neo4j", "PuppyGraph">>

\* customers_df.sample(n=min(num_customers, len(customers_df))): customer
\* ids without repetition, in any order, possibly none
TestLists(custs) ==
    {ids \in UNION {[1..n -> DOMAIN custs] : n \in 0..MaxBatch} :
        \A i, j \in 1..Len(ids) : ids[i] = ids[j] => i = j}

\* what backend a holds: the dataset, or nothing when it was never loaded
ViewTransactions(a) == IF a \in loaded THEN transactions ELSE EmptyBag

ViewCustomers(a) == IF a \in loaded THEN customers ELSE EmptyBag

\* one adapter operation of the running benchmark_* call; failed tells
\* whether the backend failed during it
Call(op, arg, failed, r, elapsed) ==
    [op |-> op, arg |-> arg, failed |-> failed, raised |-> r.raised,
     value |-> r.value, elapsed |-> elapsed]

\* the locals of benchmark_*: result, single_query_time, results, batch_time
Frame(a, result, single_query_time, results, batch_time) ==
    [backend |-> a, result |-> result,
     single_query_time |-> single_query_time,
     results |-> results, batch_time |-> batch_time]

\* return <record> from benchmark_* of backend a: run_full_benchmark binds
\* it and goes on to the next benchmark_*, or to the report after the third
BenchmarkReturn(a, rec) ==
    /\ benchmark_results' = [benchmark_results EXCEPT ![a] = rec]
    /\ pc' = IF Len(runs') = Len(BackendOrder) THEN "report" ELSE "call"

\* except Exception as e: return {..., 'error': str(e), ...}
BenchmarkExcept_Reraise(a, error) ==
    /\ benchmark_results' = benchmark_results
    /\ pc' = "aborted"

BenchmarkExcept(a, error) ==
    BenchmarkReturn(a, FailureMarker(a, test_customer_ids, error))

\* benchmark_<a>(customer_ids) is entered; try: <a>Queries()
Benchmark_connect(a, fault) ==
    /\ pc = "call"
    /\ Len(runs) < Len(BackendOrder)
    /\ a = BackendOrder[Len(runs) + 1]
    /\ runs' = Append(runs, a)
    /\ trace' = <<Call("connect", "", fault,
                       IF fault THEN Raised ELSE Returned(EmptyBag), 0)>>
    /\ frame' = Frame(a, NULL, 0, <<>>, 0)
    /\ IF fault
       THEN /\ BenchmarkExcept(a, "connect")
            /\ UNCHANGED conn
       ELSE /\ conn' = [conn EXCEPT ![a] = "open"]
            /\ pc' = "warmup"
            /\ UNCHANGED benchmark_results
    /\ UNCHANGED <<customers, transactions, closeCalls, out, faults, loaded,
                   test_customer_ids, report, queries, failedQueries,
                   pipeVars>>

\* the queries of a batch that hit a backend failure: the loop of
\* PostgresQueries and Neo4jQueries ends at the first one, the loop of
\* PuppyGraphQueries goes through the list
FailedInBatch(a, fs) ==
    IF a = "PuppyGraph" THEN Cardinality({i \in 1..Len(fs) : fs[i]})
    ELSE IF \E i \in 1..Len(fs) : fs[i] THEN 1 ELSE 0

\* <a>.close() called by benchmark_*: the underlying close() is called and
\* may itself raise
Benchmark_closeAdapter(a, fault) ==
    /\ closeCalls' = [closeCalls EXCEPT ![a] = @ + 1]
    /\ conn' = [conn EXCEPT ![a] = IF fault THEN @ ELSE "closed"]

\* warm-up: <a>.two_hop_aggregation(customer_ids[0]); benchmark_puppygraph
\* then tests warmup_result.get('num_2hop_transactions', 0) == 0, closes
\* the adapter and returns the 'Schema not loaded' marker
Benchmark_warmup(a, mode, fault, elapsed, closeFault) ==
    /\ pc = "warmup"
    /\ frame.backend = a
    /\ UNCHANGED <<customers, transactions, out, faults, loaded,
                   test_customer_ids, runs, report, frame, queries, pipeVars>>
    /\ failedQueries' = IF test_customer_ids # <<>> /\ fault
                        THEN [failedQueries EXCEPT ![a] = @ + 1]
                        ELSE failedQueries
    /\ IF test_customer_ids = <<>>
       THEN \* customer_ids[0]: IndexError
            /\ BenchmarkExcept(a, "index")
            /\ UNCHANGED <<trace, conn, closeCalls>>
       ELSE LET r == AdapterCall(a, ViewTransactions(a), ViewCustomers(a),
                                 test_customer_ids[1], mode, fault)
            IN  IF r.raised
                THEN /\ trace' = Append(trace,
                            Call("two_hop", test_customer_ids[1], fault, r, elapsed))
                     /\ BenchmarkExcept(a, "query")
                     /\ UNCHANGED <<conn, closeCalls>>
                ELSE IF a = "PuppyGraph"
                        /\ PyGet(r.value, "num_2hop_transactions", 0) = 0
                THEN /\ trace' = Append(Append(trace,
                            Call("two_hop", test_customer_ids[1], fault, r, elapsed)),
                            Call("close", "", closeFault,
                                 IF closeFault THEN Raised
                                 ELSE Returned(EmptyBag), 0))
                     /\ Benchmark_closeAdapter(a, closeFault)
                     /\ IF closeFault THEN BenchmarkExcept(a, "close")
                        ELSE BenchmarkReturn(a,
                                FailureMarker(a, test_customer_ids, "schema"))
                ELSE /\ trace' = Append(trace,
                            Call("two_hop", test_customer_ids[1], fault, r, elapsed))
                     /\ pc' = "single"
                     /\ UNCHANGED <<conn, closeCalls, benchmark_results>>

\* start_time = time.time(); result = <a>.two_hop_aggregation(customer_ids[0])
\* single_query_time = time.time() - start_time
Benchmark_single(a, mode, fault, elapsed) ==
    /\ pc = "single"
    /\ frame.backend = a
    /\ UNCHANGED <<customers, transactions, out, faults, loaded,
                   test_customer_ids, runs, report, conn, closeCalls,
                   queries, pipeVars>>
    /\ failedQueries' = IF fault THEN [failedQueries EXCEPT ![a] = @ + 1]
                        ELSE failedQueries
    /\ LET r == AdapterCall(a, ViewTransactions(a), ViewCustomers(a),
                            test_customer_ids[1], mode, fault)
       IN  /\ trace' = Append(trace,
                  Call("two_hop", test_customer_ids[1], fault, r, elapsed))
           /\ IF r.raised
              THEN /\ BenchmarkExcept(a, "query")
                   /\ UNCHANGED frame
              ELSE /\ frame' = Frame(a, r.value, elapsed, <<>>, 0)
                   /\ pc' = "batch"
                   /\ UNCHANGED benchmark_results

\* start_time = time.time(); results = <a>.batch_two_hop_aggregation(
\* customer_ids); batch_time = time.time() - start_time;
\* avg_query_time = batch_time / len(customer_ids)
Benchmark_batch(a, mode, fs, elapsed) ==
    /\ pc = "batch"
    /\ frame.backend = a
    /\ UNCHANGED <<customers, transactions, out, faults, loaded,
                   test_customer_ids, runs, report, conn, closeCalls,
                   queries, pipeVars>>
    /\ failedQueries' = [failedQueries EXCEPT ![a] = @ + FailedInBatch(a, fs)]
    /\ LET b == AdapterBatch(a, ViewTransactions(a), ViewCustomers(a),
                             test_customer_ids, mode, fs)
       IN  /\ trace' = Append(trace, Call("batch", test_customer_ids,
                                    \E i \in 1..Len(fs) : fs[i], b, elapsed))
           /\ IF b.raised
              THEN /\ BenchmarkExcept(a, "query")
                   /\ UNCHANGED frame
              ELSE /\ frame' = Frame(a, frame.result, frame.single_query_time,
                                     b.value, elapsed)
                   /\ pc' = "close"
                   /\ UNCHANGED benchmark_results

\* <a>.close(); benchmark_results = {...}; print(...); return
\* benchmark_results
Benchmark_close(a, fault) ==
    /\ pc = "close"
    /\ frame.backend = a
    /\ UNCHANGED <<customers, transactions, out, faults, loaded,
                   test_customer_ids, runs, report, frame, queries,
                   failedQueries, pipeVars>>
    /\ trace' = Append(trace, Call("close", "", fault,
                                   IF fault THEN Raised
                                   ELSE Returned(EmptyBag), 0))
    /\ Benchmark_closeAdapter(a, fault)
    /\ IF fault THEN BenchmarkExcept(a, "close")
       ELSE BenchmarkReturn(a,
                RecordAfterBatch(a, test_customer_ids, frame.single_query_time,
                                 frame.batch_time, frame.result,
                                 Returned(frame.results)))

(***************************************************************************)
(* generate_comparison_report                                              *)
(***************************************************************************)
\* x / y on floats, for y # 0
RatDiv(x, y) == Rat(x[1] * y[2], x[2] * y[1])

Pow10(k) == IF k = 4 THEN 10000 ELSE 100

\* f"{x:.4f}", f"{x:.2f}": x >= 0 rounded to k decimals, ties to even; the
\* text is represented by its number of units of 10^-k
FormatFixed(x, k) ==
    LET q == (x[1] * Pow10(k)) \div x[2]
        r == (x[1] * Pow10(k)) % x[2]
    IN  [decimals |-> k,
         units |-> IF 2 * r < x[2] THEN q
                   ELSE IF 2 * r > x[2] THEN q + 1
                   ELSE IF q % 2 = 0 THEN q ELSE q + 1]

\* failed_dbs: the names whose record has an 'error' entry, in this order
FailedDbs(rs) ==
    LET name(i) == IF HasError(rs[i]) THEN <<BackendOrder[i]>> ELSE <<>>
    IN  name(1) \o name(2) \o name(3)

\* one dictionary of summary_data
SummaryRow_PartialError(result) ==
    IF ~HasError(result)
    THEN [Database        |-> result.database,
          SingleQueryTime |-> FormatFixed(result.single_query_time, 4),
          AvgQueryTime    |-> FormatFixed(result.avg_query_time, 4),
          QueriesSecond   |-> FormatFixed(result.queries_per_second, 2),
          TotalBatchTime  |-> FormatFixed(result.batch_total_time, 2)]
    ELSE [Database        |-> result.database,
          SingleQueryTime |-> "0.0000",
          AvgQueryTime    |-> "ERROR",
          QueriesSecond   |-> "0.00",
          TotalBatchTime  |-> "0.00"]

SummaryRow(result) ==
    IF ~HasError(result)
    THEN [Database        |-> result.database,
          SingleQueryTime |-> FormatFixed(result.single_query_time, 4),
          AvgQueryTime    |-> FormatFixed(result.avg_query_time, 4),
          QueriesSecond   |-> FormatFixed(result.queries_per_second, 2),
          TotalBatchTime  |-> FormatFixed(result.batch_total_time, 2)]
    ELSE [Database        |-> result.database,
          SingleQueryTime |-> "ERROR",
          AvgQueryTime    |-> "ERROR",
          QueriesSecond   |-> "ERROR",
          TotalBatchTime  |-> "ERROR"]

\* successful_dbs = [r for r in [...] if 'error' not in r]
SuccessfulDbs(rs) == {i \in 1..3 : ~HasError(rs[i])}

\* the speedup lines printed: backend name -> postgres_time / avg_query_time
Speedups_NeedsAll(rs) ==
    IF Cardinality(SuccessfulDbs(rs)) >= 3
    THEN [n \in {BackendOrder[i] : i \in SuccessfulDbs(rs) \ {1}} |->
             RatDiv(rs[1].avg_query_time,
                    rs[CHOOSE i \in 2..3 : BackendOrder[i] = n].avg_query_time)]
    ELSE EmptyBag

Speedups_Inverted(rs) ==
    IF Cardinality(SuccessfulDbs(rs)) >= 2 /\ ~HasError(rs[1])
    THEN [n \in {BackendOrder[i] : i \in SuccessfulDbs(rs) \ {1}} |->
             RatDiv(rs[CHOOSE i \in 2..3 : BackendOrder[i] = n].avg_query_time,
                    rs[1].avg_query_time)]
    ELSE EmptyBag

Speedups(rs) ==
    IF Cardinality(SuccessfulDbs(rs)) >= 2 /\ ~HasError(rs[1])
    THEN [n \in {BackendOrder[i] : i \in SuccessfulDbs(rs) \ {1}} |->
             RatDiv(rs[1].avg_query_time,
                    rs[CHOOSE i \in 2..3 : BackendOrder[i] = n].avg_query_time)]
    ELSE EmptyBag

\* the line printed in place of speedup figures
SpeedupMessage_OneText(rs) ==
    IF Cardinality(SuccessfulDbs(rs)) >= 2 /\ ~HasError(rs[1]) THEN "none"
    ELSE "Insufficient data for speedup analysis"

SpeedupMessage(rs) ==
    IF Cardinality(SuccessfulDbs(rs)) >= 2
    THEN IF ~HasError(rs[1]) THEN "none"
         ELSE "Cannot calculate speedup - PostgreSQL benchmark unavailable"
    ELSE "Insufficient data for speedup analysis"

\* save_results: one row of benchmark_summary.csv
SavedRow(result) ==
    [database           |-> result.database,
     single_query_time  |-> result.single_query_time,
     avg_query_time     |-> result.avg_query_time,
     queries_per_second |-> result.queries_per_second,
     batch_total_time   |-> result.batch_total_time,
     batch_size         |-> result.batch_size]

\* save_results: the rows of benchmark_summary.csv, appended under
\* if 'error' not in result
SummaryCsv(rs) ==
    LET row(i) == IF ~HasError(rs[i]) THEN <<SavedRow(rs[i])>> ELSE <<>>
    IN  row(1) \o row(2) \o row(3)

\* save_results: the <database>_detailed_results.csv files written, by
\* database, each with the rows of all_results
DetailedCsvs(rs) ==
    [n \in {BackendOrder[i] : i \in SuccessfulDbs(rs)} |->
        rs[CHOOSE i \in 1..3 : BackendOrder[i] = n].all_results]

\* generate_visualizations: the bars drawn, one per row of summary_data
\* whose average is not 'ERROR'; none and no picture if no such row
ChartBars(rs) ==
    LET bar(i) == IF ~HasError(rs[i])
                  THEN <<[Database  |-> SummaryRow(rs[i]).Database,
                          avg_times |-> SummaryRow(rs[i]).AvgQueryTime,
                          qps       |-> SummaryRow(rs[i]).QueriesSecond]>>
                  ELSE <<>>
    IN  bar(1) \o bar(2) \o bar(3)

\* generate_comparison_report(postgres_results, neo4j_results,
\* puppygraph_results), rs being the three records in that order
ComparisonReport(rs) ==
    [generated     |-> TRUE,
     inputs        |-> rs,
     failed_dbs    |-> FailedDbs(rs),
     summary_data  |-> [i \in 1..3 |-> SummaryRow(rs[i])],
     speedups      |-> Speedups(rs),
     message       |-> SpeedupMessage(rs),
     summary_csv   |-> SummaryCsv(rs),
     detailed_csvs |-> DetailedCsvs(rs),
     chart         |-> ChartBars(rs)]

\* self.generate_comparison_report(postgres_results, neo4j_results,
\* puppygraph_results)
generate_comparison_report ==
    /\ pc = "report"
    /\ report' = ComparisonReport(
                    [i \in 1..3 |-> benchmark_results[BackendOrder[i]]])
    /\ pc' = "done"
    /\ UNCHANGED <<customers, transactions, conn, closeCalls, out, faults,
                   loaded, test_customer_ids, trace, frame, benchmark_results,
                   runs, queries, failedQueries, pipeVars>>

\* run_full_benchmark on the scenario dataset, one backend possibly left
\* without its data
InitBench ==
    /\ customers = ScenarioCustomers
    /\ transactions = ScenarioTransactions
    /\ conn = [a \in Adapters |-> "none"]
    /\ closeCalls = [a \in Adapters |-> 0]
    /\ out = NoOutput
    /\ faults = <<>>
    /\ loaded \in {Adapters} \cup {Adapters \ {a} : a \in Adapters}
    /\ test_customer_ids \in TestLists(customers)
    /\ pc = "call"
    /\ trace = <<>>
    /\ frame = NoFrame
    /\ benchmark_results = [a \in Adapters |-> NoRecord]
    /\ runs = <<>>
    /\ report = NoReport
    /\ queries = <<>>
    /\ failedQueries = [a \in Adapters |-> 0]
    /\ PipelineIdle

\* the engine behaviours that matter to backend a
ModesOf(a) == IF a = "PuppyGraph" THEN GremlinByModes ELSE {"null"}

NextBench ==
    \/ \E a \in Adapters, f \in BOOLEAN : Benchmark_connect(a, f)
    \/ \E a \in {frame.backend} \cap Adapters, f \in BOOLEAN,
          d \in Durations, cf \in BOOLEAN :
          \E m \in ModesOf(a) : Benchmark_warmup(a, m, f, d, cf)
    \/ \E a \in {frame.backend} \cap Adapters, f \in BOOLEAN,
          d \in Durations :
          \E m \in ModesOf(a) : Benchmark_single(a, m, f, d)
    \/ \E a \in {frame.backend} \cap Adapters, d \in Durations :
          \E m \in ModesOf(a), fs \in [1..Len(test_customer_ids) -> BOOLEAN] :
             Benchmark_batch(a, m, fs, d)
    \/ \E a \in Adapters, f \in BOOLEAN : Benchmark_close(a, f)
    \/ generate_comparison_report

SpecBench == InitBench /\ [][NextBench]_vars

(***************************************************************************)
(* generate_comparison_report on any three records of the two shapes the   *)
(* benchmark_* functions return                                            *)
(***************************************************************************)
ReportTimes == 1..MaxReportTime

\* the records benchmark_<a> can return for the list ['A', 'B']
RecordsOf(a) ==
    {FailureMarker(a, <<"A", "B">>, e) : e \in {"connect", "query"}}
    \cup {SuccessRecord(a, <<"A", "B">>, t[1], t[2], ZeroFeatures,
                        <<WithCustomerId(ZeroFeatures, "A"),
                          WithCustomerId(ZeroFeatures, "B")>>) :
             t \in ReportTimes \X ReportTimes}

InitReport ==
    /\ customers = ScenarioCustomers
    /\ transactions = ScenarioTransactions
    /\ conn = [a \in Adapters |-> "none"]
    /\ closeCalls = [a \in Adapters |-> 0]
    /\ out = NoOutput
    /\ faults = <<>>
    /\ loaded = Adapters
    /\ test_customer_ids = <<"A", "B">>
    /\ pc = "report"
    /\ trace = <<>>
    /\ frame = NoFrame
    /\ benchmark_results \in [Adapters -> UNION {RecordsOf(a) : a \in Adapters}]
    /\ \A a \in Adapters : benchmark_results[a] \in RecordsOf(a)
    /\ runs = BackendOrder
    /\ report = NoReport
    /\ queries = <<>>
    /\ failedQueries = [a \in Adapters |-> 0]
    /\ PipelineIdle

NextReport == generate_comparison_report

SpecReport == InitReport /\ [][NextReport]_vars

\* the calls of the last adapter operation that hit a backend failure
FailedCalls == {i \in 1..Len(faults) : faults[i]}

\* a failure condition, as opposed to a feature vector
IsFailureCondition(v) == DOMAIN v # FeatureKeys

\* C11: when the backend call raises, two_hop_aggregation does not raise:
\* it returns, and what it returns is a failure condition, not a feature
\* vector.
C11_FailureNotPropagated ==
    (IsTwoHop /\ FailedCalls # {}) =>
        (~out.raised /\ IsFailureCondition(out.value))

\* C12: when exactly one query of a batch fails, the batch returns one
\* element per seed: the all-zero vector (with its customer_id) for the
\* failed seed and the normal result for every other seed.
C12_BatchSurvivesOneFailure ==
    (IsBatch /\ Cardinality(FailedCalls) = 1) =>
        /\ ~out.raised
        /\ Len(out.value) = Len(out.arg)
        /\ \A i \in 1..Len(out.arg) :
              IF i \in FailedCalls
              THEN out.value[i] = WithCustomerId(ZeroFeatures, out.arg[i])
              ELSE \E r \in TwoHopOutcomes(out.adapter, transactions,
                                           customers, out.arg[i]) :
                      ~r.raised
                      /\ out.value[i] = WithCustomerId(r.value, out.arg[i])

\* the number of queries of a batch that hit a backend failure
Degraded(fs) == Cardinality({i \in 1..Len(fs) : fs[i]})

\* C13: the record built after a batch in which k queries failed and were
\* degraded to the all-zero vector tells k: it differs from the record
\* built, from the same timings and sample, after a batch over the same
\* seeds in which a different number of queries were degraded.
C13_DegradedSeedsExposed ==
    (IsBatch /\ ~out.raised) =>
        \A fs \in [1..Len(out.arg) -> BOOLEAN], m \in GremlinByModes,
           t \in Durations \ {0} :
            LET other == AdapterBatch(out.adapter, transactions, customers,
                                      out.arg, m, fs)
            IN  (~other.raised /\ Degraded(fs) # Degraded(faults)) =>
                    RecordAfterBatch(out.adapter, out.arg, t, t,
                                     ZeroFeatures, other)
                      # RecordAfterBatch(out.adapter, out.arg, t, t,
                                         ZeroFeatures, out)

\* benchmark_<a> has returned and its locals and operations are still the
\* last ones recorded
JustReturned(a) == frame.backend = a /\ benchmark_results[a] # NoRecord

\* the backends whose benchmark_* has returned
Finished == {a \in Adapters : benchmark_results[a] # NoRecord}

\* C14: the run of a backend that connects but holds no data returns a
\* failure marker; the run of a backend that holds the data and whose first
\* seed has no completed outgoing relation is not classified as
\* schema-not-loaded, and if it succeeds its sample result is all zero.
C14_EmptyViewDistinguished ==
    \A a \in Finished :
        /\ (a \notin loaded /\ conn[a] # "none")
              => HasError(benchmark_results[a])
        /\ (/\ a \in loaded
            /\ test_customer_ids # <<>>
            /\ NoCompletedOutgoing(transactions, test_customer_ids[1]))
              => IF HasError(benchmark_results[a])
                 THEN benchmark_results[a].error # "schema"
                 ELSE benchmark_results[a].sample_result = ZeroFeatures

\* the operations and arguments of the adapter calls of the last run
TraceOps == [i \in 1..Len(trace) |-> <<trace[i].op, trace[i].arg>>]

\* C15: a benchmark run that returns a success record has performed, in
\* this order: connect, two_hop_aggregation on the first seed (warm-up),
\* two_hop_aggregation on the first seed (timed), batch_two_hop_aggregation
\* on the whole list, close; sample_result and single_query_time are the
\* result and the duration of the second of the two single queries.
C15_RunOrder ==
    \A a \in Adapters :
        (JustReturned(a) /\ ~HasError(benchmark_results[a])) =>
            /\ Len(test_customer_ids) >= 1
            /\ TraceOps = << <<"connect", "">>,
                             <<"two_hop", test_customer_ids[1]>>,
                             <<"two_hop", test_customer_ids[1]>>,
                             <<"batch", test_customer_ids>>,
                             <<"close", "">> >>
            /\ benchmark_results[a].sample_result = trace[3].value
            /\ benchmark_results[a].single_query_time = Rat(trace[3].elapsed, 1)
            /\ benchmark_results[a].all_results = trace[4].value
            /\ benchmark_results[a].batch_total_time = Rat(trace[4].elapsed, 1)

\* a success record of a run whose warm-up, timed query and batch took
\* different times
C15_Witness ==
    \E a \in Adapters :
        /\ JustReturned(a) /\ ~HasError(benchmark_results[a])
        /\ Len(trace) = 5
        /\ trace[2].elapsed # trace[3].elapsed
        /\ trace[3].elapsed # trace[4].elapsed
        /\ benchmark_results[a].sample_result.num_2hop_transactions > 0

\* C16: every success record of a run over N seeds has batch_size = N,
\* avg_query_time = batch_total_time / N, queries_per_second =
\* N / batch_total_time, and N entries in all_results.
C16_BatchFigures ==
    \A a \in Finished :
        ~HasError(benchmark_results[a]) =>
            LET rec == benchmark_results[a]
                N   == Len(test_customer_ids)
            IN  /\ N >= 1
                /\ rec.batch_size = N
                /\ rec.batch_total_time # Zero
                /\ rec.avg_query_time = RatDiv(rec.batch_total_time, <<N, 1>>)
                /\ rec.queries_per_second = RatDiv(<<N, 1>>, rec.batch_total_time)
                /\ Len(rec.all_results) = N

\* a success record of a run over two seeds
C16_Witness ==
    \E a \in Finished :
        /\ ~HasError(benchmark_results[a])
        /\ benchmark_results[a].batch_size = 2
        /\ benchmark_results[a].avg_query_time # benchmark_results[a].batch_total_time

IsPrefix(u, v) == Len(u) <= Len(v) /\ \A i \in 1..Len(u) : u[i] = v[i]

\* the statements of run_full_benchmark and of the benchmark_* call in
\* progress; any other value of pc means an exception left the harness
HarnessPoints ==
    {"call", "warmup", "single", "batch", "close", "report", "done"}

\* C17: whichever backends fail, the three benchmark runs are entered once
\* each in the order PostgreSQL, Neo4j, PuppyGraph; no failure takes
\* run_full_benchmark off its statements, it is done only once the
\* comparison report was generated, and the report is made from the three
\* records the runs returned.
C17_AllBackendsRun ==
    /\ IsPrefix(runs, BackendOrder)
    /\ report.generated =>
          /\ runs = BackendOrder
          /\ Finished = Adapters
          /\ report.inputs = [i \in 1..3 |-> benchmark_results[BackendOrder[i]]]
    /\ pc \in HarnessPoints
    /\ pc = "done" <=> report.generated

\* the report was generated although PostgreSQL failed to connect and a
\* Neo4j query failed
C17_Witness ==
    /\ report.generated
    /\ HasError(benchmark_results["PostgreSQL"])
    /\ benchmark_results["PostgreSQL"].error = "connect"
    /\ HasError(benchmark_results["Neo4j"])
    /\ benchmark_results["Neo4j"].error = "query"

\* the harness is inside a benchmark_* call
InsideBenchmark == pc \in {"warmup", "single", "batch", "close"}

\* C18: a benchmark_* call always returns a record to run_full_benchmark,
\* for the empty seed list too, and the record has an 'error' entry
\* whenever the backend failed during connect, warm-up, single query, batch
\* or close, and whenever the seed list is empty.
C18_AlwaysARecord ==
    /\ ~InsideBenchmark =>
          \A i \in 1..Len(runs) : benchmark_results[runs[i]] # NoRecord
    /\ \A a \in Adapters :
          (/\ JustReturned(a)
           /\ \/ test_customer_ids = <<>>
              \/ \E i \in 1..Len(trace) : trace[i].failed)
            => HasError(benchmark_results[a])

\* a run whose close() failed after its batch succeeded, and a run over
\* the empty list
C18_Witness ==
    \E a \in Adapters :
        /\ JustReturned(a) /\ HasError(benchmark_results[a])
        /\ \/ Len(trace) = 5 /\ trace[5].failed
           \/ test_customer_ids = <<>> /\ conn[a] = "open"

\* the records the report was made from, by backend name
InputOf(n) == report.inputs[CHOOSE i \in 1..3 : BackendOrder[i] = n]

\* the names of the successful backends other than PostgreSQL
SuccessfulOthers ==
    {n \in {"Neo4j", "PuppyGraph"} : ~HasError(InputOf(n))}

\* C19: when the PostgreSQL run succeeded, the report holds one speedup for
\* each successful backend among Neo4j and PuppyGraph, equal to
\* postgres.avg_query_time / backend.avg_query_time, and none for a failed
\* backend or for PostgreSQL.
C19_SpeedupPerSuccessfulBackend ==
    (report.generated /\ ~HasError(InputOf("PostgreSQL"))) =>
        /\ DOMAIN report.speedups = SuccessfulOthers
        /\ \A n \in SuccessfulOthers :
              report.speedups[n] = RatDiv(InputOf("PostgreSQL").avg_query_time,
                                          InputOf(n).avg_query_time)

\* PostgreSQL and Neo4j succeeded with different average times and
\* PuppyGraph failed: one speedup, different from 1
C19_Witness ==
    /\ report.generated
    /\ ~HasError(InputOf("PostgreSQL"))
    /\ SuccessfulOthers = {"Neo4j"}
    /\ DOMAIN report.speedups = {"Neo4j"}
    /\ report.speedups["Neo4j"] # <<1, 1>>

\* speedup analysis is skipped: fewer than two backends succeeded, or
\* PostgreSQL failed
SpeedupSkipped ==
    \/ Cardinality(SuccessfulDbs(report.inputs)) < 2
    \/ HasError(InputOf("PostgreSQL"))

\* C20 as stated: the report carries the "Insufficient data" line and no
\* speedup figure exactly when fewer than two backends succeeded or
\* PostgreSQL failed.
C20_InsufficientDataWhenSkipped ==
    report.generated =>
        /\ SpeedupSkipped <=> report.message = "Insufficient data for speedup analysis"
        /\ SpeedupSkipped <=> DOMAIN report.speedups = {}

\* C20 amended: no speedup figure is computed exactly when fewer than two
\* backends succeeded or PostgreSQL failed; the line printed instead is
\* "Insufficient data for speedup analysis" when fewer than two backends
\* succeeded, and "Cannot calculate speedup - PostgreSQL benchmark
\* unavailable" when PostgreSQL failed and the two other backends succeeded.
C20_SkippedOutcomes ==
    report.generated =>
        /\ SpeedupSkipped <=> DOMAIN report.speedups = {}
        /\ SpeedupSkipped <=> report.message # "none"
        /\ Cardinality(SuccessfulDbs(report.inputs)) < 2
              <=> report.message = "Insufficient data for speedup analysis"
        /\ (HasError(InputOf("PostgreSQL")) /\ SuccessfulOthers = {"Neo4j", "PuppyGraph"})
              <=> report.message
                    = "Cannot calculate speedup - PostgreSQL benchmark unavailable"

\* PostgreSQL failed and the two other backends succeeded
C20_Witness ==
    /\ report.generated
    /\ HasError(InputOf("PostgreSQL"))
    /\ SuccessfulOthers = {"Neo4j", "PuppyGraph"}
    /\ DOMAIN report.speedups = {}

\* the backends whose record, as given to the report, has an 'error' entry
FailedInputs == {n \in Adapters : HasError(InputOf(n))}

\* the row of summary_data for backend n
RowOf(n) == report.summary_data[CHOOSE i \in 1..3 : BackendOrder[i] = n]

\* the row of backend n carries the formatted figures of its record
NumericRow(n) ==
    /\ RowOf(n).Database = n
    /\ RowOf(n).SingleQueryTime = FormatFixed(InputOf(n).single_query_time, 4)
    /\ RowOf(n).AvgQueryTime = FormatFixed(InputOf(n).avg_query_time, 4)
    /\ RowOf(n).QueriesSecond = FormatFixed(InputOf(n).queries_per_second, 2)
    /\ RowOf(n).TotalBatchTime = FormatFixed(InputOf(n).batch_total_time, 2)

\* C21 as stated: when exactly one backend failed, whichever it is, the
\* rows of the two successful backends carry their figures and the report
\* holds a speedup figure.
C21_SpeedupFromSuccessfulPair ==
    (report.generated /\ Cardinality(FailedInputs) = 1) =>
        /\ \A n \in Adapters \ FailedInputs : NumericRow(n)
        /\ DOMAIN report.speedups # {}

\* C21 amended: when exactly one backend failed, the rows of the two
\* successful backends carry their figures; if the failed backend is Neo4j
\* or PuppyGraph the report holds exactly one speedup, that of the other
\* one, equal to postgres.avg_query_time / its avg_query_time; if the
\* failed backend is PostgreSQL the report holds no speedup and the line
\* "Cannot calculate speedup - PostgreSQL benchmark unavailable".
C21_OneFailureOutcomes ==
    (report.generated /\ Cardinality(FailedInputs) = 1) =>
        /\ \A n \in Adapters \ FailedInputs : NumericRow(n)
        /\ IF "PostgreSQL" \in FailedInputs
           THEN /\ DOMAIN report.speedups = {}
                /\ report.message
                     = "Cannot calculate speedup - PostgreSQL benchmark unavailable"
           ELSE /\ DOMAIN report.speedups
                     = {"Neo4j", "PuppyGraph"} \ FailedInputs
                /\ report.message = "none"
                /\ \A n \in DOMAIN report.speedups :
                      report.speedups[n]
                        = RatDiv(InputOf("PostgreSQL").avg_query_time,
                                 InputOf(n).avg_query_time)

\* only Neo4j failed, and PuppyGraph was twice as fast as PostgreSQL
C21_Witness ==
    /\ report.generated
    /\ FailedInputs = {"Neo4j"}
    /\ DOMAIN report.speedups = {"PuppyGraph"}
    /\ report.speedups["PuppyGraph"] = <<2, 1>>
    /\ NumericRow("PuppyGraph")

\* the names listed as unavailable
UnavailableList == {report.failed_dbs[i] : i \in 1..Len(report.failed_dbs)}

\* the row of backend n carries ERROR in every timing column
ErrorRow(n) ==
    /\ RowOf(n).Database = n
    /\ RowOf(n).SingleQueryTime = "ERROR"
    /\ RowOf(n).AvgQueryTime = "ERROR"
    /\ RowOf(n).QueriesSecond = "ERROR"
    /\ RowOf(n).TotalBatchTime = "ERROR"

\* C22: for every combination of success and failure records the summary
\* table has three rows, one per backend in the order PostgreSQL, Neo4j,
\* PuppyGraph; the row of a failed backend carries ERROR in every timing
\* column and the backend is listed as unavailable, the row of a successful
\* backend carries its figures and the backend is not listed; every
\* backend is either listed as unavailable or successful, never both.
C22_SummaryRows ==
    report.generated =>
        /\ DOMAIN report.summary_data = 1..3
        /\ \A i \in 1..3 : report.summary_data[i].Database = BackendOrder[i]
        /\ \A n \in FailedInputs : ErrorRow(n) /\ n \in UnavailableList
        /\ \A n \in Adapters \ FailedInputs :
              NumericRow(n) /\ n \notin UnavailableList
        /\ UnavailableList = FailedInputs
        /\ Len(report.failed_dbs) = Cardinality(FailedInputs)
        /\ {BackendOrder[i] : i \in SuccessfulDbs(report.inputs)}
             = Adapters \ UnavailableList

\* PostgreSQL and PuppyGraph failed, Neo4j succeeded
C22_Witness ==
    /\ report.generated
    /\ FailedInputs = {"PostgreSQL", "PuppyGraph"}
    /\ report.failed_dbs = <<"PostgreSQL", "PuppyGraph">>
    /\ ErrorRow("PuppyGraph")
    /\ NumericRow("Neo4j")

\* C23: a backend whose run had a failed query (warm-up, timed single
\* query or any query of the batch) is never presented with numeric
\* timings: its record has an 'error' entry as soon as the run returns, and
\* in the report its row carries ERROR and it is listed as unavailable.
C23_NumericOnlyIfAllSucceeded ==
    /\ \A a \in Finished :
          failedQueries[a] > 0 => HasError(benchmark_results[a])
    /\ report.generated =>
          \A n \in Adapters :
             failedQueries[n] > 0 =>
                /\ HasError(InputOf(n))
                /\ ErrorRow(n)
                /\ n \in UnavailableList

\* the report of a run in which every PostgreSQL query succeeded, a Neo4j
\* query failed and a PuppyGraph query failed
C23_Witness ==
    /\ report.generated
    /\ failedQueries = [a \in Adapters |-> IF a = "PostgreSQL" THEN 0 ELSE 1]
    /\ ~HasError(InputOf("PostgreSQL"))
    /\ NumericRow("PostgreSQL")
    /\ ErrorRow("Neo4j")
    /\ ErrorRow("PuppyGraph")

\* C24: another invocation of two_hop_aggregation on the same seed and the
\* same dataset returns the feature vector the last invocation returned,
\* whether or not the backend failed during either of them.
C24_RepeatedCallsEqual ==
    IsTwoHop =>
        \A m \in GremlinByModes, f \in BOOLEAN :
            LET again == AdapterCall(out.adapter, transactions, customers,
                                     out.arg, m, f)
            IN  /\ ~out.raised
                /\ ~again.raised
                /\ again.value = out.value

\* C26: batch_two_hop_aggregation sends its backend queries one per list
\* position, in list order, without skipping a seed that was queried
\* before: the queries sent are a prefix of the list; a batch that returns
\* has sent exactly one query per position, N in all, so that a seed that
\* occurs k times is queried k times, and it returns N results; a batch
\* that raises has stopped right after the query that failed.
C26_OneQueryPerPosition ==
    IsBatch =>
        /\ IsPrefix(queries, out.arg)
        /\ ~out.raised =>
              /\ queries = out.arg
              /\ Len(out.value) = Len(out.arg)
              /\ \A id \in Seeds(customers) :
                    Cardinality({i \in 1..Len(queries) : queries[i] = id})
                      = Cardinality({i \in 1..Len(out.arg) : out.arg[i] = id})
        /\ out.raised =>
              /\ queries # <<>>
              /\ faults[Len(queries)]
              /\ \A i \in 1..(Len(queries) - 1) : ~faults[i]

\* a batch over a list that names the same seed twice has returned
C26_Witness ==
    /\ IsBatch
    /\ ~out.raised
    /\ Len(out.arg) = 2
    /\ out.arg[1] = out.arg[2]
    /\ queries = out.arg

\* C27: for every combination of success and failure records,
\* benchmark_summary.csv as written by save_results has three rows, one
\* for each backend in the order PostgreSQL, Neo4j, PuppyGraph, the row of
\* a failed backend included.
C27_SummaryCsvAllBackends ==
    report.generated =>
        /\ Len(report.summary_csv) = 3
        /\ \A i \in 1..3 : report.summary_csv[i].database = BackendOrder[i]

\* C28: when benchmark_<a>, called on a list that is not empty, has
\* returned and its adapter had been constructed, the adapter's close() was
\* called exactly once, whichever path the run took.
C28_ClosedOnceOnReturn ==
    \A a \in Finished :
        (test_customer_ids # <<>> /\ conn[a] # "none") => closeCalls[a] = 1

\* the four timing fields of a record
TimingFields ==
    {"single_query_time", "batch_total_time", "avg_query_time",
     "queries_per_second"}

\* a number, as opposed to None
IsNumber(x) == x # NULL /\ x[2] > 0

\* C29: every record a benchmark run returned either has an 'error' entry
\* and None in its four timing fields, or has no 'error' entry and a number
\* in each of them, batch_total_time and avg_query_time being non-zero;
\* and every speedup of the report was computed from two numbers, the
\* divisor non-zero.
C29_RecordShapes ==
    /\ \A a \in Finished :
          LET rec == benchmark_results[a]
          IN  /\ TimingFields \subseteq DOMAIN rec
              /\ IF HasError(rec)
                 THEN \A k \in TimingFields : rec[k] = NULL
                 ELSE /\ \A k \in TimingFields : IsNumber(rec[k])
                      /\ rec.batch_total_time # Zero
                      /\ rec.avg_query_time # Zero
    /\ report.generated =>
          \A n \in DOMAIN report.speedups :
             /\ IsNumber(InputOf("PostgreSQL").avg_query_time)
             /\ IsNumber(InputOf(n).avg_query_time)
             /\ InputOf(n).avg_query_time # Zero
             /\ IsNumber(report.speedups[n])

\* a report with a speedup, made after a run that returned a success
\* record and a run that returned a failure marker
C29_Witness ==
    /\ report.generated
    /\ DOMAIN report.speedups = {"Neo4j"}
    /\ HasError(benchmark_results["PuppyGraph"])
    /\ ~HasError(benchmark_results["Neo4j"])
    /\ benchmark_results["Neo4j"].single_query_time = Zero

(***************************************************************************)
(* run_all.py: BenchmarkPipeline.run, one action per iteration of its loop *)
(*   skip_data_generation, skip_setup : the arguments of run               *)
(*   step        : the index i of the step the loop is at (0: not running, *)
(*                 6: past the loop)                                       *)
(*   executed    : the steps whose step_func was called, in order, with    *)
(*                 whether the call raised                                 *)
(*   exit_status : <<>> while running, <<1>> after sys.exit(1), <<0>>      *)
(*                 after 'PIPELINE COMPLETED' and the return of main       *)
(*   data_files  : the CSV files of DATA_DIR exist                         *)
(***************************************************************************)
\* self.steps
Steps ==
    <<"Generate Banking Data", "Setup PostgreSQL", "Setup Neo4j",
      "Setup PuppyGraph", "Run Performance Benchmark">>

SetupSteps == {"Setup PostgreSQL", "Setup Neo4j", "Setup PuppyGraph"}

\* the two tests that lead to `continue`
Skipped_DataOnly(step_name) ==
    skip_data_generation /\ step_name = "Generate Banking Data"

Skipped(step_name) ==
    \/ skip_data_generation /\ step_name = "Generate Banking Data"
    \/ skip_setup /\ step_name \in SetupSteps

\* how a step function can fail: not at all, before it changed anything
\* (the backend cannot be reached), or after it started (a statement or a
\* file operation fails)
StepFaults == {"none", "early", "late"}

\* the backend a setup step loads
BackendOf(step_name) ==
    IF step_name = "Setup PostgreSQL" THEN "PostgreSQL" ELSE "Neo4j"

\* whether step_func() raises: postgres_setup.main and neo4j_setup.main
\* re-raise, and read the CSV files; puppygraph_setup.main catches every
\* Exception and returns; benchmark.main reads customers.csv outside any try
StepRaises(step_name, fault) ==
    CASE step_name = "Generate Banking Data" -> fault # "none"
      [] step_name \in {"Setup PostgreSQL", "Setup Neo4j"} ->
            fault # "none" \/ ~data_files
      [] step_name = "Setup PuppyGraph" -> FALSE
      [] step_name = "Run Performance Benchmark" ->
            fault # "none" \/ ~data_files

\* what the backends hold after step_func(): a setup step drops what its
\* backend held (DROP TABLE, DETACH DELETE) once it is connected, then
\* loads the CSV files; the PuppyGraph schema is loaded by hand, not here
LoadedAfter(step_name, fault) ==
    IF step_name \in {"Setup PostgreSQL", "Setup Neo4j"}
    THEN IF fault = "early" THEN loaded
         ELSE IF StepRaises(step_name, fault)
              THEN loaded \ {BackendOf(step_name)}
         ELSE loaded \cup {BackendOf(step_name)}
    ELSE loaded

\* except Exception as e: print(...); sys.exit(1)
StepExcept_Continue ==
    /\ exit_status' = exit_status
    /\ step' = step + 1

StepExcept ==
    /\ exit_status' = <<1>>
    /\ step' = step

\* if skip_... and step_name ...: print("Skipping"); continue
Pipeline_skip ==
    /\ step \in 1..Len(Steps)
    /\ exit_status = <<>>
    /\ Skipped(Steps[step])
    /\ step' = step + 1
    /\ UNCHANGED <<customers, transactions, conn, closeCalls, out, benchVars,
                   skip_data_generation, skip_setup, executed, exit_status,
                   data_files>>

\* try: step_func() ... except Exception: ... sys.exit(1)
Pipeline_step(fault) ==
    /\ step \in 1..Len(Steps)
    /\ exit_status = <<>>
    /\ ~Skipped(Steps[step])
    /\ executed' = Append(executed,
                          [step_name |-> Steps[step],
                           raised    |-> StepRaises(Steps[step], fault)])
    /\ data_files' = IF Steps[step] = "Generate Banking Data" /\ fault = "none"
                     THEN TRUE ELSE data_files
    /\ loaded' = LoadedAfter(Steps[step], fault)
    /\ IF StepRaises(Steps[step], fault)
       THEN StepExcept
       ELSE /\ step' = step + 1
            /\ UNCHANGED exit_status
    /\ UNCHANGED <<customers, transactions, conn, closeCalls, out, faults,
                   test_customer_ids, pc, trace, frame, benchmark_results,
                   runs, report, queries, failedQueries,
                   skip_data_generation, skip_setup>>

\* after the loop: print("PIPELINE COMPLETED"); run and main return
Pipeline_completed ==
    /\ step = Len(Steps) + 1
    /\ exit_status = <<>>
    /\ exit_status' = <<0>>
    /\ UNCHANGED <<customers, transactions, conn, closeCalls, out, benchVars,
                   skip_data_generation, skip_setup, step, executed,
                   data_files>>

\* python run_all.py [--skip-data] [--skip-setup], whatever earlier runs
\* left in DATA_DIR and in the backends
InitPipeline ==
    /\ customers = ScenarioCustomers
    /\ transactions = ScenarioTransactions
    /\ conn = [a \in Adapters |-> "none"]
    /\ closeCalls = [a \in Adapters |-> 0]
    /\ out = NoOutput
    /\ faults = <<>>
    /\ queries = <<>>
    /\ failedQueries = [a \in Adapters |-> 0]
    /\ loaded \in SUBSET Adapters
    /\ test_customer_ids = <<>>
    /\ pc = "idle"
    /\ trace = <<>>
    /\ frame = NoFrame
    /\ benchmark_results = [a \in Adapters |-> NoRecord]
    /\ runs = <<>>
    /\ report = NoReport
    /\ skip_data_generation \in BOOLEAN
    /\ skip_setup \in BOOLEAN
    /\ step = 1
    /\ executed = <<>>
    /\ exit_status = <<>>
    /\ data_files \in BOOLEAN

NextPipeline ==
    \/ Pipeline_skip
    \/ \E f \in StepFaults : Pipeline_step(f)
    \/ Pipeline_completed

SpecPipeline == InitPipeline /\ [][NextPipeline]_vars

\* the names of the steps executed so far
ExecutedNames == [i \in 1..Len(executed) |-> executed[i].step_name]

\* the steps among the first k that the arguments do not skip, in order
RECURSIVE RunSteps(_)
RunSteps(k) ==
    IF k = 0 THEN <<>>
    ELSE IF \/ skip_data_generation /\ k = 1
            \/ skip_setup /\ k \in 2..4
         THEN RunSteps(k - 1)
    ELSE Append(RunSteps(k - 1), Steps[k])

\* C25: with skip_data_generation the data-generation step is never
\* executed, with skip_setup none of the three setup steps is executed,
\* and the steps that are not skipped are executed in the listed order:
\* after each iteration the steps executed are the non-skipped ones among
\* those the loop has passed, and a pipeline that completed has executed
\* every non-skipped step, the benchmark step last.
C25_SkipFlags ==
    /\ skip_data_generation =>
          \A i \in 1..Len(executed) :
             executed[i].step_name # "Generate Banking Data"
    /\ skip_setup =>
          \A i \in 1..Len(executed) : executed[i].step_name \notin SetupSteps
    /\ step \in 1..(Len(Steps) + 1)
    /\ ExecutedNames = RunSteps(IF exit_status = <<1>> THEN step ELSE step - 1)
    /\ exit_status = <<0>> =>
          /\ ExecutedNames = RunSteps(Len(Steps))
          /\ executed # <<>>
          /\ executed[Len(executed)].step_name = "Run Performance Benchmark"

\* the pipeline completed with both flags set: only the benchmark ran
C25_Witness ==
    /\ skip_data_generation
    /\ skip_setup
    /\ exit_status = <<0>>
    /\ ExecutedNames = <<"Run Performance Benchmark">>

\* the position of a step in self.steps
StepIndex(step_name) == CHOOSE i \in 1..Len(Steps) : Steps[i] = step_name

\* C30: the steps are executed in the listed order; when a step raises,
\* the exit status is 1, the step that raised is the last one executed,
\* and the pipeline does not complete; the exit status is 1 only then.
C30_StopsAtFailingStep ==
    /\ \A i, j \in 1..Len(executed) :
          i < j => StepIndex(executed[i].step_name)
                     < StepIndex(executed[j].step_name)
    /\ \A i \in 1..Len(executed) :
          executed[i].raised =>
             /\ i = Len(executed)
             /\ exit_status = <<1>>
             /\ step = StepIndex(executed[i].step_name)
    /\ exit_status = <<1>> =>
          executed # <<>> /\ executed[Len(executed)].raised
    /\ exit_status = <<0>> =>
          /\ step = Len(Steps) + 1
          /\ \A i \in 1..Len(executed) : ~executed[i].raised

\* Setup Neo4j raised after the two steps before it had completed
C30_Witness ==
    /\ exit_status = <<1>>
    /\ ExecutedNames = <<"Generate Banking Data", "Setup PostgreSQL",
                         "Setup Neo4j">>
    /\ executed[3].raised
    /\ step = 3

=============================================================================
